---- MODULE Spec2Model ----
(***************************************************************************)
(* Model of src/src/main.rs: LinkedHashMap<K, V>, a HashMap from keys to   *)
(* the nodes of a doubly linked list (Rc<RefCell<DoublyLinkedList>>), and  *)
(* its forward Iterator.  Rc references are node addresses into `heap`;    *)
(* address 0 is the one Nil node that new() allocates.  A node that no Rc  *)
(* reaches any more is dropped and its address is free again.  Option<T>   *)
(* is a sequence of length 0 (None) or 1 (Some).                           *)
(***************************************************************************)
EXTENDS Integers, Sequences, FiniteSets, TLC

\* ---- bounds ----
MaxNodes == 3   \* Cons nodes alive at the same time
NumKeys == 2    \* distinct keys offered to the operations
NumVals == 2    \* distinct values offered to insert
IterVals == 1   \* distinct values offered to insert in the runs with a cursor

Keys == 1..NumKeys
Vals == 1..NumVals

VARIABLES heap, current_link, first_link, hashmap, iter_link,
          lastOp, inserted, removed, expected, drainN, drainSteps,
          panicked, loop

vars == <<heap, current_link, first_link, hashmap, iter_link,
          lastOp, inserted, removed, expected, drainN, drainSteps,
          panicked, loop>>

\* ---- Option ----
None == <<>>
Some(x) == <<x>>

\* ---- enum DoublyLinkedList<T> { Nil, Cons(prev, pair, next) } ----
NilId == 0
Nil == [tag |-> "Nil", prev |-> 0, key |-> 0, val |-> 0, next |-> 0]
Cons(prev_link, key, val, next_link) ==
    [tag |-> "Cons", prev |-> prev_link, key |-> key, val |-> val, next |-> next_link]

\* Iterator without a live cursor (iter() not called yet)
NoIter == 0 - 1

\* The LinkedHashMap value held in the variables
Self ==
    [heap |-> heap, current_link |-> current_link,
     first_link |-> first_link, hashmap |-> hashmap]

\* LinkedListUnit::new(RefCell::new(..)): a fresh Rc is the first address
\* above every live node, so live nodes are in allocation order
alloc(h) == (CHOOSE a \in DOMAIN h : \A b \in DOMAIN h : b <= a) + 1

\* LinkedHashMap::new
new ==
    [heap |-> [i \in {NilId} |-> Nil], current_link |-> NilId,
     first_link |-> NilId, hashmap |-> <<>>]

\* hashmap_insert that keeps the slot of a key already present
hashmap_insert_keep(hm, key, link) ==
    [k \in (DOMAIN hm) \cup {key} |-> IF k \in DOMAIN hm THEN hm[k] ELSE link]

\* HashMap::insert: overwrites the slot of a key already present
hashmap_insert(hm, key, link) ==
    [k \in (DOMAIN hm) \cup {key} |-> IF k = key THEN link ELSE hm[k]]

\* hashmap_remove that leaves the slot in place
hashmap_remove_noop(hm, key) == hm

\* HashMap::remove
hashmap_remove(hm, key) ==
    [k \in (DOMAIN hm) \ {key} |-> hm[k]]

\* link_tail that does not set first_link for the first node
link_tail_nofirst(m, initialized, next_link) ==
    IF initialized
    THEN [m EXCEPT !.heap = [m.heap EXCEPT ![m.current_link].next = next_link],
                   !.current_link = next_link]
    ELSE [m EXCEPT !.current_link = next_link]

\* link_tail that does not rewrite chain_end of the old current_link
link_tail_nolink(m, initialized, next_link) ==
    IF initialized
    THEN [m EXCEPT !.current_link = next_link]
    ELSE [m EXCEPT !.current_link = next_link, !.first_link = next_link]

\* insert, lines 112-120: link the new node behind the old current_link
link_tail(m, initialized, next_link) ==
    IF initialized
    THEN [m EXCEPT !.heap = [m.heap EXCEPT ![m.current_link].next = next_link],
                   !.current_link = next_link]
    ELSE [m EXCEPT !.current_link = next_link, !.first_link = next_link]

\* insert whose new node takes first_link, not current_link, as its prev
insert_prevfirst(m, key, val) ==
    LET prev_link == m.first_link
        initialized == m.heap[m.current_link].tag = "Cons"
        end_of_chain == IF initialized THEN m.heap[m.current_link].next
                        ELSE m.current_link
        next_link == alloc(m.heap)
        h1 == [i \in (DOMAIN m.heap) \cup {next_link} |->
                 IF i = next_link THEN Cons(prev_link, key, val, end_of_chain)
                 ELSE m.heap[i]]
        m1 == [m EXCEPT !.heap = h1,
                        !.hashmap = hashmap_insert(m.hashmap, key, next_link)]
    IN link_tail(m1, initialized, next_link)

\* LinkedHashMap::insert
insert(m, key, val) ==
    LET prev_link == m.current_link
        initialized == m.heap[m.current_link].tag = "Cons"
        end_of_chain == IF initialized THEN m.heap[m.current_link].next
                        ELSE m.current_link
        next_link == alloc(m.heap)
        h1 == [i \in (DOMAIN m.heap) \cup {next_link} |->
                 IF i = next_link THEN Cons(prev_link, key, val, end_of_chain)
                 ELSE m.heap[i]]
        m1 == [m EXCEPT !.heap = h1,
                        !.hashmap = hashmap_insert(m.hashmap, key, next_link)]
    IN link_tail(m1, initialized, next_link)

\* LinkedHashMap::get
get(m, key) ==
    IF key \notin DOMAIN m.hashmap THEN None
    ELSE IF m.heap[m.hashmap[key]].tag = "Cons"
         THEN Some(m.heap[m.hashmap[key]].val)
         ELSE None

\* link_forward that moves first_link also when the predecessor is a node
link_forward_alwaysfirst(m, prev_link, next_link) ==
    IF m.heap[prev_link].tag = "Cons"
    THEN [m EXCEPT !.heap = [m.heap EXCEPT ![prev_link].next = next_link],
                   !.first_link = next_link]
    ELSE [m EXCEPT !.first_link = next_link]

\* link_forward that leaves the predecessor's next on the removed node
link_forward_norewrite(m, prev_link, next_link) ==
    IF m.heap[prev_link].tag = "Cons"
    THEN m
    ELSE [m EXCEPT !.first_link = next_link]

\* remove, lines 151-156: the predecessor's next, or first_link
link_forward(m, prev_link, next_link) ==
    IF m.heap[prev_link].tag = "Cons"
    THEN [m EXCEPT !.heap = [m.heap EXCEPT ![prev_link].next = next_link]]
    ELSE [m EXCEPT !.first_link = next_link]

\* link_backward that leaves the successor's prev on the removed node
link_backward_noprev(m, prev_link, next_link) ==
    IF m.heap[next_link].tag = "Cons"
    THEN m
    ELSE [m EXCEPT !.current_link = prev_link]

\* link_backward that never moves current_link off the removed node
link_backward_nocurrent(m, prev_link, next_link) ==
    IF m.heap[next_link].tag = "Cons"
    THEN [m EXCEPT !.heap = [m.heap EXCEPT ![next_link].prev = prev_link]]
    ELSE m

\* remove, lines 158-175: the successor's prev, or current_link
link_backward(m, prev_link, next_link) ==
    IF m.heap[next_link].tag = "Cons"
    THEN [m EXCEPT !.heap = [m.heap EXCEPT ![next_link].prev = prev_link]]
    ELSE [m EXCEPT !.current_link = prev_link]

\* remove_absent that falls through to the splice with current_link
remove_absent_splice(m, key) ==
    [m |-> [m EXCEPT !.current_link = m.heap[m.current_link].prev], ret |-> None]

\* remove, lines 138-142: the early return for a key not in the hashmap
remove_absent(m, key) ==
    [m |-> m, ret |-> None]

\* LinkedHashMap::remove
remove(m, key) ==
    IF key \notin DOMAIN m.hashmap THEN remove_absent(m, key)
    ELSE LET link == m.hashmap[key]
             n == m.heap[link]
             m2 == IF n.tag = "Cons"
                   THEN link_backward(link_forward(m, n.prev, n.next), n.prev, n.next)
                   ELSE m
         IN [m |-> [m2 EXCEPT !.hashmap = hashmap_remove(m.hashmap, key)],
             ret |-> IF n.tag = "Cons" THEN Some(n.val) ELSE None]

\* LinkedHashMap::iter
iter(m) == m.first_link

\* next that yields the pair but leaves iter_link on the node
next_stay(h, link) ==
    IF h[link].tag = "Cons"
    THEN [iter_link |-> link, ret |-> Some(<<h[link].key, h[link].val>>)]
    ELSE [iter_link |-> link, ret |-> None]

\* Iterator::next
next(h, link) ==
    IF h[link].tag = "Cons"
    THEN [iter_link |-> h[link].next, ret |-> Some(<<h[link].key, h[link].val>>)]
    ELSE [iter_link |-> link, ret |-> None]

\* A cursor advanced until it reports None: the nodes it yields.  The fuel
\* bounds the walk by the number of nodes, so it is defined on any heap.
RECURSIVE Collect(_, _, _)
Collect(h, link, fuel) ==
    IF fuel = 0 \/ next(h, link).ret = None THEN <<>>
    ELSE <<link>> \o Collect(h, next(h, link).iter_link, fuel - 1)

WalkFrom(h, link) == Collect(h, link, Cardinality(DOMAIN h))

\* `for pair in map.iter()`: nodes and pairs of a fresh iteration
IterNodes(m) == WalkFrom(m.heap, iter(m))
PairsOf(h, ns) == [i \in 1..Len(ns) |-> <<h[ns[i]].key, h[ns[i]].val>>]
IterPairs(m) == PairsOf(m.heap, IterNodes(m))

Range(s) == {s[i] : i \in 1..Len(s)}
RangeOf(f) == {f[x] : x \in DOMAIN f}
Index(s, x) == CHOOSE i \in 1..Len(s) : s[i] = x
Without(s, x) == SelectSeq(s, LAMBDA y : y # x)

\* ---- record of the last call: its arguments, its result, the node it made,
\* removed or yielded, the nodes a fresh iteration yielded before it, and
\* whether the call before it removed the only entry of the chain ----
Op(op, key, val, ret, node, pre, afterSole) ==
    [op |-> op, key |-> key, val |-> val, ret |-> ret, node |-> node,
     pre |-> pre, afterSole |-> afterSole]

\* ---- Drop for Rc: the nodes some Rc still reaches are kept, the others
\* are freed.  Rcs are held by first_link, current_link, the hashmap, the
\* Iterator and the prev and next of every node that is kept ----
Roots(m, it) ==
    {m.first_link, m.current_link} \cup RangeOf(m.hashmap)
        \cup (IF it = NoIter THEN {} ELSE {it})

RECURSIVE Reach(_, _)
Reach(h, S) ==
    LET T == S \cup {h[n].prev : n \in S} \cup {h[n].next : n \in S}
    IN IF T = S THEN S ELSE Reach(h, T)

drop(h, roots) == [n \in Reach(h, roots) |-> h[n]]

\* ---- RefCell: the borrows a call takes and gives back, in program order.
\* borrow() panics on a cell that is mutably borrowed, borrow_mut() on a cell
\* that is borrowed at all ----
Ev(kind, cell) == [kind |-> kind, cell |-> cell]

RECURSIVE BorrowPanics(_, _, _)
BorrowPanics(trace, shared, mut) ==
    IF trace = <<>> THEN FALSE
    ELSE LET e == Head(trace)
             n == Cardinality({i \in shared : i[2] = e.cell})
         IN CASE e.kind = "borrow" ->
                    \/ e.cell \in mut
                    \/ BorrowPanics(Tail(trace), shared \cup {<<n, e.cell>>}, mut)
              [] e.kind = "borrow_mut" ->
                    \/ e.cell \in mut
                    \/ n > 0
                    \/ BorrowPanics(Tail(trace), shared, mut \cup {e.cell})
              [] e.kind = "drop" ->
                    BorrowPanics(Tail(trace), shared \ {<<n - 1, e.cell>>}, mut)
              [] OTHER ->
                    BorrowPanics(Tail(trace), shared, mut \ {e.cell})

Panics(trace) == BorrowPanics(trace, {}, {})

\* insert: borrow() of current_link at line 99, borrow_mut() at line 113
insert_borrows(m) ==
    <<Ev("borrow", m.current_link), Ev("drop", m.current_link)>>
        \o (IF m.heap[m.current_link].tag = "Cons"
            THEN <<Ev("borrow_mut", m.current_link), Ev("drop_mut", m.current_link)>>
            ELSE <<>>)

\* get: borrow() of the node at line 130
get_borrows(m, key) ==
    IF key \in DOMAIN m.hashmap
    THEN <<Ev("borrow", m.hashmap[key]), Ev("drop", m.hashmap[key])>>
    ELSE <<>>

\* remove_borrows that keeps prev mutably borrowed while next is borrowed
remove_borrows_overlap(m, key) ==
    IF key \notin DOMAIN m.hashmap THEN <<>>
    ELSE LET link == m.hashmap[key]
             n == m.heap[link]
         IN IF n.tag = "Cons"
            THEN <<Ev("borrow", link),
                   Ev("borrow_mut", n.prev),
                   Ev("borrow_mut", n.next), Ev("drop_mut", n.next),
                   Ev("drop_mut", n.prev),
                   Ev("drop", link)>>
            ELSE <<Ev("borrow", link), Ev("drop", link)>>

\* remove: borrow() of the node at line 146, held to line 176; inside it
\* borrow_mut() of prev_link (lines 151-156), then of next_link (162-169)
remove_borrows(m, key) ==
    IF key \notin DOMAIN m.hashmap THEN <<>>
    ELSE LET link == m.hashmap[key]
             n == m.heap[link]
         IN IF n.tag = "Cons"
            THEN <<Ev("borrow", link),
                   Ev("borrow_mut", n.prev), Ev("drop_mut", n.prev),
                   Ev("borrow_mut", n.next), Ev("drop_mut", n.next),
                   Ev("drop", link)>>
            ELSE <<Ev("borrow", link), Ev("drop", link)>>

\* Iterator::next: borrow() of iter_link at lines 51-54
next_borrows(link) == <<Ev("borrow", link), Ev("drop", link)>>

\* The entries of the map have pairwise distinct keys, all in the hashmap
DistinctKeys(m) ==
    /\ \A i, j \in 1..Len(IterNodes(m)) :
          m.heap[IterNodes(m)[i]].key = m.heap[IterNodes(m)[j]].key => i = j
    /\ {m.heap[n].key : n \in Range(IterNodes(m))} = DOMAIN m.hashmap

\* ---- the loop of main, lines 227-230: one cursor, each key it yields is
\* removed before the next advance ----
Loop(pc, start, distinct, yielded, advances, rets) ==
    [pc |-> pc, start |-> start, distinct |-> distinct, yielded |-> yielded,
     advances |-> advances, rets |-> rets]

SoleRemoval(o) ==
    o.op \in {"remove", "drain"} /\ o.ret # None /\ o.pre = <<o.node>>

Init ==
    /\ heap = new.heap
    /\ current_link = new.current_link
    /\ first_link = new.first_link
    /\ hashmap = new.hashmap
    /\ iter_link = NoIter
    /\ lastOp = Op("new", 0, None, None, NilId, <<>>, FALSE)
    /\ inserted = <<>>
    /\ removed = FALSE
    /\ expected = [k \in Keys |-> None]
    /\ drainN = NoIter
    /\ drainSteps = 0
    /\ panicked = FALSE
    /\ loop = Loop("off", <<>>, FALSE, <<>>, 0, <<>>)

Draining == drainN # NoIter

\* No loop of main is running and no call has panicked
Idle == ~Draining /\ loop.pc = "off" /\ ~panicked

\* The state after a call: the map it leaves, the cursor, dropped nodes freed
SetState(m, it) ==
    /\ heap' = drop(m.heap, Roots(m, it))
    /\ current_link' = m.current_link
    /\ first_link' = m.first_link
    /\ hashmap' = m.hashmap
    /\ iter_link' = it

\* map.insert(key, val)
Insert(key, val) ==
    /\ Idle
    /\ alloc(heap) <= MaxNodes
    /\ SetState(insert(Self, key, val), iter_link)
    /\ lastOp' = Op("insert", key, Some(val), None, alloc(heap), IterNodes(Self),
                    SoleRemoval(lastOp))
    /\ inserted' = IF removed THEN inserted ELSE Append(inserted, <<key, val>>)
    /\ expected' = [expected EXCEPT ![key] = Some(val)]
    /\ panicked' = Panics(insert_borrows(Self))
    /\ UNCHANGED <<removed, drainN, drainSteps, loop>>

\* map.get(&key)
Get(key) ==
    /\ Idle
    /\ lastOp' = Op("get", key, None, get(Self, key), NilId, IterNodes(Self),
                    SoleRemoval(lastOp))
    /\ panicked' = Panics(get_borrows(Self, key))
    /\ UNCHANGED <<heap, current_link, first_link, hashmap, iter_link,
                   inserted, removed, expected, drainN, drainSteps, loop>>

\* map.remove(&key)
Remove(key) ==
    /\ Idle
    /\ SetState(remove(Self, key).m, iter_link)
    /\ lastOp' = Op("remove", key, get(Self, key), remove(Self, key).ret,
                    IF key \in DOMAIN hashmap THEN hashmap[key] ELSE NilId,
                    IterNodes(Self), SoleRemoval(lastOp))
    /\ removed' = TRUE
    /\ inserted' = <<>>
    /\ expected' = [expected EXCEPT ![key] = None]
    /\ panicked' = Panics(remove_borrows(Self, key))
    /\ UNCHANGED <<drainN, drainSteps, loop>>

\* let it = map.iter()
Iter ==
    /\ Idle
    /\ SetState(Self, iter(Self))
    /\ lastOp' = Op("iter", 0, None, None, NilId, IterNodes(Self), SoleRemoval(lastOp))
    /\ UNCHANGED <<inserted, removed, expected, drainN, drainSteps, panicked, loop>>

\* it.next()
Next_ ==
    /\ Idle
    /\ iter_link # NoIter
    /\ SetState(Self, next(heap, iter_link).iter_link)
    /\ lastOp' = Op("next", 0, None, next(heap, iter_link).ret, iter_link,
                    IterNodes(Self), SoleRemoval(lastOp))
    /\ panicked' = Panics(next_borrows(iter_link))
    /\ UNCHANGED <<inserted, removed, expected, drainN, drainSteps, loop>>

\* Start of a drain: N is the number of entries a fresh iteration yields
StartDrain ==
    /\ Idle
    /\ drainN' = Len(IterNodes(Self))
    /\ drainSteps' = 0
    /\ lastOp' = Op("startdrain", 0, None, None, NilId, IterNodes(Self),
                    SoleRemoval(lastOp))
    /\ UNCHANGED <<heap, current_link, first_link, hashmap, iter_link,
                   inserted, removed, expected, panicked, loop>>

\* One drain step: the first key a fresh iter() yields is removed
DrainStep ==
    /\ Draining
    /\ ~panicked
    /\ drainSteps < drainN
    /\ next(heap, iter(Self)).ret # None
    /\ LET key == next(heap, iter(Self)).ret[1][1]
       IN /\ SetState(remove(Self, key).m, iter_link)
          /\ lastOp' = Op("drain", key, get(Self, key), remove(Self, key).ret,
                          IF key \in DOMAIN hashmap THEN hashmap[key] ELSE NilId,
                          IterNodes(Self), SoleRemoval(lastOp))
          /\ expected' = [expected EXCEPT ![key] = None]
          /\ panicked' = (Panics(next_borrows(iter(Self)))
                            \/ Panics(remove_borrows(Self, key)))
    /\ drainSteps' = drainSteps + 1
    /\ removed' = TRUE
    /\ inserted' = <<>>
    /\ UNCHANGED <<drainN, loop>>

\* for (i, (key, _)) in map.iter().enumerate(): the cursor of the loop
LoopStart ==
    /\ Idle
    /\ SetState(Self, iter(Self))
    /\ loop' = Loop("advance", IterPairs(Self), DistinctKeys(Self), <<>>, 0, <<>>)
    /\ lastOp' = Op("iter", 0, None, None, NilId, IterNodes(Self), SoleRemoval(lastOp))
    /\ UNCHANGED <<inserted, removed, expected, drainN, drainSteps, panicked>>

\* The loop advances its cursor: None ends the loop
LoopNext ==
    /\ loop.pc = "advance"
    /\ ~panicked
    /\ SetState(Self, next(heap, iter_link).iter_link)
    /\ loop' = [loop EXCEPT
                  !.pc = IF next(heap, iter_link).ret = None THEN "done" ELSE "remove",
                  !.yielded = loop.yielded \o next(heap, iter_link).ret,
                  !.advances = loop.advances + 1]
    /\ lastOp' = Op("next", 0, None, next(heap, iter_link).ret, iter_link,
                    IterNodes(Self), SoleRemoval(lastOp))
    /\ panicked' = Panics(next_borrows(iter_link))
    /\ UNCHANGED <<inserted, removed, expected, drainN, drainSteps>>

\* The loop body: map.remove(&key) of the key just yielded
LoopRemove ==
    /\ loop.pc = "remove"
    /\ ~panicked
    /\ LET key == loop.yielded[Len(loop.yielded)][1]
       IN /\ SetState(remove(Self, key).m, iter_link)
          /\ loop' = [loop EXCEPT !.pc = "advance",
                                  !.rets = Append(loop.rets, remove(Self, key).ret)]
          /\ lastOp' = Op("remove", key, get(Self, key), remove(Self, key).ret,
                          IF key \in DOMAIN hashmap THEN hashmap[key] ELSE NilId,
                          IterNodes(Self), SoleRemoval(lastOp))
          /\ expected' = [expected EXCEPT ![key] = None]
          /\ panicked' = Panics(remove_borrows(Self, key))
    /\ removed' = TRUE
    /\ inserted' = <<>>
    /\ UNCHANGED <<drainN, drainSteps>>

\* Every call of the map, of a cursor and of the drain loop of main
Next ==
    \/ \E key \in Keys, val \in Vals : Insert(key, val)
    \/ \E key \in Keys : Get(key)
    \/ \E key \in Keys : Remove(key)
    \/ Iter
    \/ Next_
    \/ StartDrain
    \/ DrainStep
    \/ LoopStart
    \/ LoopNext
    \/ LoopRemove

Spec == Init /\ [][Next]_vars

\* The calls of the map alone: no Iterator exists
NextMap ==
    \/ \E key \in Keys, val \in Vals : Insert(key, val)
    \/ \E key \in Keys : Get(key)
    \/ \E key \in Keys : Remove(key)

SpecMap == Init /\ [][NextMap]_vars

\* One Iterator held across insert and remove calls
NextIter ==
    \/ \E key \in Keys, val \in 1..IterVals : Insert(key, val)
    \/ \E key \in Keys : Remove(key)
    \/ Iter
    \/ Next_

SpecIter == Init /\ [][NextIter]_vars

\* The four calls that borrow a node: insert, get, remove and next
NextCalls ==
    \/ \E key \in Keys, val \in 1..IterVals : Insert(key, val)
    \/ \E key \in Keys : Get(key)
    \/ \E key \in Keys : Remove(key)
    \/ Iter
    \/ Next_

SpecCalls == Init /\ [][NextCalls]_vars

\* The loop of main started in any state that insert and remove reach
NextLoop ==
    \/ \E key \in Keys, val \in Vals : Insert(key, val)
    \/ \E key \in Keys : Remove(key)
    \/ LoopStart
    \/ LoopNext
    \/ LoopRemove

SpecLoop == Init /\ [][NextLoop]_vars

\* ---- the chain as a fresh iteration sees it ----
ChainNodes == IterNodes(Self)
ChainKeys == {heap[n].key : n \in Range(ChainNodes)}
NodesOfKey(k) == {n \in Range(ChainNodes) : heap[n].key = k}

\* C1: the keys carried by the nodes reachable from first_link are exactly
\* the keys of the hashmap, and every hashmap key has exactly one such node.
C1_Bijection ==
    /\ ChainKeys = DOMAIN hashmap
    /\ \A k \in DOMAIN hashmap : Cardinality(NodesOfKey(k)) = 1

\* C2: a remove of a present key returns the value stored for it, removes
\* exactly one entry, keeps the other pairs in their relative order, and
\* afterwards the key does not appear and no pair appears twice.
C2_RemovalCorrect ==
    (lastOp.op = "remove" /\ lastOp.ret # None) =>
        /\ lastOp.ret = lastOp.val
        /\ Len(ChainNodes) = Len(lastOp.pre) - 1
        /\ ChainNodes = Without(lastOp.pre, lastOp.node)
        /\ lastOp.key \notin ChainKeys
        /\ \A i, j \in 1..Len(ChainNodes) :
              IterPairs(Self)[i] = IterPairs(Self)[j] => i = j

\* C3: with no remove since new(), a fresh iteration yields the inserted
\* pairs in the order of the insert calls.
C3_OrderPreservation ==
    ~removed => IterPairs(Self) = inserted

C3_Witness ==
    /\ ~removed
    /\ Len(inserted) >= 3
    /\ \E i, j \in 1..Len(inserted) : i < j /\ inserted[i][1] = inserted[j][1]

\* C4: get(k) is the value of the latest insert(k, v) not followed by a
\* remove(k), and None for every other key.
C4_RoundTrip ==
    /\ \A k \in Keys : get(Self, k) = expected[k]
    /\ lastOp.op = "get" => lastOp.ret = expected[lastOp.key]
    /\ \A k \in Keys : expected[k] = None \/ (Len(expected[k]) = 1 /\ expected[k][1] \in Vals)

C4_Witness ==
    /\ lastOp.op = "get"
    /\ lastOp.ret # None
    /\ \E n \in Range(ChainNodes) :
          heap[n].key = lastOp.key /\ Some(heap[n].val) # lastOp.ret
    /\ \E k \in Keys : get(Self, k) = None

\* C5: a remove of a key that is not in the hashmap returns None and changes
\* neither first_link, current_link, the hashmap, any node nor the iteration.
C5_IdempotentAbsence ==
    [][(lastOp'.op = "remove" /\ lastOp'.key \notin DOMAIN hashmap) =>
          /\ lastOp'.ret = None
          /\ first_link' = first_link
          /\ current_link' = current_link
          /\ hashmap' = hashmap
          /\ heap' = heap
          /\ IterPairs([heap |-> heap', current_link |-> current_link',
                        first_link |-> first_link', hashmap |-> hashmap'])
               = IterPairs(Self)]_vars

C5_Witness ==
    /\ lastOp.op = "remove"
    /\ lastOp.ret = None
    /\ lastOp.key \notin DOMAIN hashmap
    /\ Len(lastOp.pre) >= 2
    /\ ChainNodes = lastOp.pre

\* C6: no two nodes reachable from first_link carry the same key.
C6_NoDuplicateChainKeys ==
    \A a, b \in Range(ChainNodes) : heap[a].key = heap[b].key => a = b

\* C7: a drain started with N entries in the iteration empties the map in
\* exactly N steps, and the iteration after it yields nothing.
C7_Drain ==
    Draining =>
        /\ drainSteps = drainN => (IterPairs(Self) = <<>> /\ first_link = NilId)
        /\ drainSteps < drainN => IterPairs(Self) # <<>>

\* C8: removing the only entry leaves first_link and current_link on the Nil
\* node, and the insert that follows makes its node both first and last.
C8_SoleRemoval ==
    /\ SoleRemoval(lastOp) =>
          /\ first_link = NilId
          /\ current_link = NilId
          /\ heap[NilId].tag = "Nil"
          /\ first_link # lastOp.node
          /\ current_link # lastOp.node
    /\ (lastOp.op = "insert" /\ lastOp.afterSole) =>
          /\ first_link = lastOp.node
          /\ current_link = lastOp.node
          /\ heap[lastOp.node].prev = NilId
          /\ heap[lastOp.node].next = NilId
          /\ ChainNodes = <<lastOp.node>>

C8_Witness ==
    /\ lastOp.op = "insert"
    /\ lastOp.afterSole
    /\ lastOp.pre = <<>>
    /\ first_link = lastOp.node

\* C9: every pair a cursor advance yields belongs to a node that the hashmap
\* holds under the pair's key at the moment of the advance.
C9_LiveOnly ==
    (lastOp.op = "next" /\ lastOp.ret # None) =>
        /\ lastOp.ret[1][1] \in DOMAIN hashmap
        /\ hashmap[lastOp.ret[1][1]] = lastOp.node

\* C10: a remove of an entry strictly after the cursor's node, the cursor's
\* node being linked in the chain, makes the cursor yield what it would have
\* yielded before, in the same order, without the removed entry.
CursorBefore(pre, cur, node) ==
    /\ cur \in Range(pre)
    /\ node \in Range(pre)
    /\ Index(pre, cur) < Index(pre, node)

C10_CursorSkipsLaterRemoval ==
    [][(/\ lastOp'.op = "remove"
        /\ lastOp'.ret # None
        /\ CursorBefore(ChainNodes, iter_link, lastOp'.node)) =>
          /\ iter_link' = iter_link
          /\ WalkFrom(heap', iter_link') = Without(WalkFrom(heap, iter_link), lastOp'.node)
          /\ lastOp'.node \notin Range(WalkFrom(heap', iter_link'))
          /\ PairsOf(heap', WalkFrom(heap', iter_link'))
               = PairsOf(heap, Without(WalkFrom(heap, iter_link), lastOp'.node))]_vars

C10_Witness ==
    /\ lastOp.op = "remove"
    /\ lastOp.ret # None
    /\ CursorBefore(lastOp.pre, iter_link, lastOp.node)
    /\ Index(lastOp.pre, lastOp.node) < Len(lastOp.pre)
    /\ Len(WalkFrom(heap, iter_link)) >= 2

\* C11: a cursor on the Nil node stays there and every later advance of it
\* returns None, whatever the map does in between; an advance on a Cons node
\* yields that node's pair and moves the cursor to the node's next.
Exhausted == iter_link # NoIter /\ heap[iter_link].tag = "Nil"

C11_ExhaustionTerminal ==
    [][/\ (Exhausted /\ lastOp'.op # "iter") =>
            /\ iter_link' = iter_link
            /\ heap'[iter_link'].tag = "Nil"
            /\ lastOp'.op = "next" => lastOp'.ret = None
       /\ (lastOp'.op = "next" /\ ~Exhausted) =>
            /\ lastOp'.ret = Some(<<heap[iter_link].key, heap[iter_link].val>>)
            /\ iter_link' = heap[iter_link].next]_vars

C11_Witness ==
    /\ lastOp.op = "next"
    /\ lastOp.ret = None
    /\ Exhausted
    /\ ChainNodes # <<>>
    /\ removed

\* C12: the chain from first_link reaches the Nil node without visiting a
\* node twice, and prev and next of its nodes agree in both directions.
Acyclic ==
    /\ \A i, j \in 1..Len(ChainNodes) : ChainNodes[i] = ChainNodes[j] => i = j
    /\ IF ChainNodes = <<>> THEN heap[first_link].tag = "Nil"
       ELSE heap[heap[ChainNodes[Len(ChainNodes)]].next].tag = "Nil"

DoublyConsistent ==
    \A n \in Range(ChainNodes) :
        /\ heap[heap[n].prev].tag = "Cons" => heap[heap[n].prev].next = n
        /\ heap[heap[n].next].tag = "Cons" => heap[heap[n].next].prev = n

C12_AcyclicDoublyConsistent == Acyclic /\ DoublyConsistent

C12_Witness ==
    /\ lastOp.op = "remove"
    /\ lastOp.ret # None
    /\ Len(lastOp.pre) >= 3
    /\ lastOp.node = lastOp.pre[2]
    /\ Len(ChainNodes) >= 2

\* C13: no call takes a borrow that RefCell refuses, so no call panics; the
\* node that remove holds borrowed is neither its own prev nor its own next.
C13_NoBorrowPanic ==
    /\ ~panicked
    /\ \A k \in DOMAIN hashmap :
          /\ heap[hashmap[k]].prev # hashmap[k]
          /\ heap[hashmap[k]].next # hashmap[k]
          /\ ~Panics(remove_borrows(Self, k))

C13_Witness ==
    /\ lastOp.op = "remove"
    /\ SoleRemoval(lastOp)
    /\ ~panicked
    /\ first_link = NilId

\* Live nodes are in allocation order, so of the nodes the hashmap holds the
\* earliest inserted has the lowest address and the latest the highest.
Earliest(S) == CHOOSE n \in S : \A x \in S : n <= x
Latest(S) == CHOOSE n \in S : \A x \in S : x <= n

\* C14: first_link is the earliest-inserted node the hashmap still holds,
\* and the Nil node when the hashmap holds no key.
C14_FirstEarliest ==
    IF DOMAIN hashmap = {} THEN first_link = NilId
    ELSE first_link = Earliest(RangeOf(hashmap))

\* C15: current_link is the latest-inserted node the hashmap still holds,
\* and the Nil node when the hashmap holds no key.
C15_LastLatest ==
    IF DOMAIN hashmap = {} THEN current_link = NilId
    ELSE current_link = Latest(RangeOf(hashmap))

\* The map after the step
SelfNext ==
    [heap |-> heap', current_link |-> current_link',
     first_link |-> first_link', hashmap |-> hashmap']

\* C16: insert(k, v) makes the iteration the one before the call followed by
\* (k, v); the new node's prev is the old current_link, the old last node's
\* next is the new node, and the new node's next is the Nil node.
C16_InsertAppends ==
    [][lastOp'.op = "insert" =>
          /\ IterPairs(SelfNext)
               = Append(IterPairs(Self), <<lastOp'.key, lastOp'.val[1]>>)
          /\ IterNodes(SelfNext) = Append(IterNodes(Self), lastOp'.node)
          /\ heap'[lastOp'.node].prev = current_link
          /\ heap[current_link].tag = "Cons" => heap'[current_link].next = lastOp'.node
          /\ heap'[lastOp'.node].next = NilId
          /\ current_link' = lastOp'.node]_vars

C16_Witness ==
    /\ lastOp.op = "insert"
    /\ Len(lastOp.pre) >= 2
    /\ removed
    /\ heap[heap[lastOp.node].prev].tag = "Cons"

\* C17: a remove that finds its key moves first_link only if the node's prev
\* is the Nil node, moves current_link only if its next is the Nil node,
\* rewrites only the next of the predecessor and the prev of the successor,
\* removes only its key from the hashmap and changes no key or value.
C17_RemoveFrame ==
    [][(lastOp'.op = "remove" /\ lastOp'.ret # None) =>
          LET r == lastOp'.node
              p == heap[r].prev
              n == heap[r].next
          IN /\ heap[p].tag = "Cons" => first_link' = first_link
             /\ heap[n].tag = "Cons" => current_link' = current_link
             /\ DOMAIN heap' \subseteq DOMAIN heap
             /\ \A x \in DOMAIN heap' :
                   /\ heap'[x].tag = heap[x].tag
                   /\ heap'[x].key = heap[x].key
                   /\ heap'[x].val = heap[x].val
                   /\ x # p => heap'[x].next = heap[x].next
                   /\ x # n => heap'[x].prev = heap[x].prev
             /\ DOMAIN hashmap' = DOMAIN hashmap \ {lastOp'.key}
             /\ \A k \in DOMAIN hashmap' : hashmap'[k] = hashmap[k]]_vars

C17_Witness ==
    /\ lastOp.op = "remove"
    /\ lastOp.ret # None
    /\ Len(lastOp.pre) >= 3
    /\ lastOp.node = lastOp.pre[2]
    /\ DOMAIN hashmap # {}

\* C18: the loop of main on a map of N entries with distinct keys yields the
\* N entries once each in order, every remove returns the entry's value, the
\* cursor returns None at advance N + 1 and the map is then empty.
C18_LoopDrains ==
    (loop.pc # "off" /\ loop.distinct) =>
        /\ loop.yielded = SubSeq(loop.start, 1, Len(loop.yielded))
        /\ \A i \in 1..Len(loop.rets) : loop.rets[i] = Some(loop.yielded[i][2])
        /\ loop.pc = "done" =>
              /\ loop.yielded = loop.start
              /\ Len(loop.rets) = Len(loop.start)
              /\ loop.advances = Len(loop.start) + 1
              /\ first_link = NilId
              /\ current_link = NilId
              /\ DOMAIN hashmap = {}
              /\ IterPairs(Self) = <<>>

C18_Witness ==
    /\ loop.pc = "done"
    /\ loop.distinct
    /\ Len(loop.start) >= 2
    /\ loop.advances = Len(loop.start) + 1

\* C19: every key of the hashmap maps to a Cons node that stores the key
\* and is reachable from first_link, so get never falls through to None.
C19_IndexNodesInChain ==
    \A k \in DOMAIN hashmap :
        /\ heap[hashmap[k]].tag = "Cons"
        /\ heap[hashmap[k]].key = k
        /\ hashmap[k] \in Range(ChainNodes)
        /\ get(Self, k) # None

C19_Witness ==
    /\ removed
    /\ DOMAIN hashmap # {}
    /\ Len(ChainNodes) > Cardinality(DOMAIN hashmap)

\* C20: current_link is the last node of the chain from first_link, its next
\* is the Nil node, first_link is the Nil node exactly when current_link is,
\* and the Nil node of new() is the only Nil node there is.
C20_CurrentIsChainEnd ==
    /\ (first_link = NilId) <=> (current_link = NilId)
    /\ IF ChainNodes = <<>>
       THEN first_link = NilId /\ current_link = NilId
       ELSE /\ current_link = ChainNodes[Len(ChainNodes)]
            /\ heap[current_link].next = NilId
            /\ heap[first_link].prev = NilId
    /\ \A n \in DOMAIN heap : heap[n].tag = "Nil" <=> n = NilId

C20_Witness ==
    /\ lastOp.op = "remove"
    /\ lastOp.ret # None
    /\ Len(lastOp.pre) >= 2
    /\ lastOp.node = lastOp.pre[Len(lastOp.pre)]
    /\ current_link = lastOp.pre[Len(lastOp.pre) - 1]

====
